---- MODULE Spec2Model ----
(***************************************************************************)
(* State-machine model of the simulation core of src/src/main.ts (the     *)
(* second, complete revision in that file, lines 613-3410): gameState,     *)
(* cameraState, the keyboard/touch handlers, startGame, updateGame,        *)
(* checkPlatformCollision, createPlatform, generatePlatforms and the       *)
(* difficulty functions.                                                   *)
(*                                                                         *)
(* Fixed-point encoding of the source's floating-point numbers:            *)
(*   lengths and velocities  1 world unit  = Unit (60000) model units, so  *)
(*                           gravity -0.006 + score/60*0.001 is the        *)
(*                           integer -360 + score;                         *)
(*   seconds                 1 s = 1000 (the fixed step 0.016 s is 16);    *)
(*   intro / camera progress 1.0 = 75 (the step 0.016/0.6 is 2);           *)
(*   spin progress           1.0 = 1000 (spinSpeed 0.015 is 15);           *)
(*   Math.random()           a draw r in 0..999 stands for r/1000;         *)
(*   glitch magnitudes       1.0 = 1000000.                                *)
(* Products with 0.9, 0.05 and the camera easing are truncated toward 0.   *)
(* Rendering, audio, the ambient particle field, the cursor and the        *)
(* explosion particle buffers are not modelled; gameState.keys.up is       *)
(* written by the handlers but never read by updateGame and is left out.   *)
(* Of the touch handlers, handleTouchStart and handleTouchEnd are          *)
(* modelled; handleTouchMove (steering by dragging) is not.                *)
(***************************************************************************)
EXTENDS Integers, Sequences, FiniteSets, TLC

VARIABLES
  copilotModel,          \* TRUE once the GLTF model has been loaded
  gameStarted,           \* gameState.gameStarted
  introAnimation,        \* [active, progress, delayProgress]
  player,                \* [position, velocity, onGround, spinning, spinProgress,
                         \*  doubleJumpAvailable, hasDoubleJumped]
  world,                 \* [offset, targetOffset]
  glitch,                \* [active, intensity, digitalNoise, rgbShift, duration]
  glitchPass,            \* uniforms [glitchIntensity, digitalNoiseIntensity, rgbShiftIntensity]
  platforms,             \* gameState.platforms
  explosions,            \* gameState.explosions, the life of each
  nextPlatformY,         \* gameState.nextPlatformY
  globalPlatformCounter, \* globalPlatformCounter
  score,                 \* gameState.score
  highScore,             \* gameState.highScore
  storage,               \* localStorage: [item, readFails, writeFails]
  gkeys,                 \* gameState.keys: [left, right]
  keys,                  \* keys[code], as the set of codes that are true
  keyPressed,            \* keyPressed[code], as the set of codes that are true
  touch,                 \* [isTouching, hasTriggeredDoubleJump, hasMoved]
  camera,                \* [z, animating, animationProgress]
  startPrompt,           \* startPromptElement.style.display = "block"
  seed,                  \* which sequence of Math.random() draws is in use
  everCreated,           \* history: number of platforms ever created
  runStartHigh,          \* history: gameState.highScore when the current run began
  runs,                  \* history: number of runs started
  inputs,                \* history: number of other input events received
  phaseTick,             \* history: ticks since the last change of game state
  hist                   \* history: what the last step did

vars == << copilotModel, gameStarted, introAnimation, player, world, glitch,
           glitchPass, platforms, explosions, nextPlatformY,
           globalPlatformCounter, score, highScore, storage, gkeys, keys,
           keyPressed, touch, camera, startPrompt, seed, everCreated,
           runStartHigh, runs, inputs, phaseTick, hist >>

-----------------------------------------------------------------------------
(* Bounds of the model *)

\* number of runs (effective start triggers) explored
MaxRuns == 1
\* number of further input events (key, click, touch) explored
MaxInputs == 1
\* input events arrive in NotStarted, or this many ticks after a phase change
InputTicks == {0, 15}
\* the Math.random() sequences explored
Seeds == {1, 2}
\* the Math.random() sequence of the long runs, in which the platforms with
\* a creation index below LadderLen are centred above the start
LongSeeds == {3}
LadderLen == 12
\* the key codes explored
Codes == {"Space", "ArrowLeft"}
\* localStorage at start-up: the item under the high-score key as a string of
\* digits (<<>> when there is none), whether getItem throws and whether
\* setItem throws
InitialStorage ==
  { [item |-> <<>>, readFails |-> FALSE, writeFails |-> FALSE],
    [item |-> <<2>>, readFails |-> FALSE, writeFails |-> FALSE],
    [item |-> <<2>>, readFails |-> FALSE, writeFails |-> TRUE],
    [item |-> <<2>>, readFails |-> TRUE, writeFails |-> TRUE] }

-----------------------------------------------------------------------------
(* Program constants *)

Unit == 60000
baseGravity == -360
jumpVelocity == 15000
doubleJumpVelocity == 13200
moveSpeed == 9000
playerRadius == 30000
introDuration == 75
introStep == 2
introDelay == 200
tickMs == 16
spinSpeed == 15
spinFull == 1000
smoothingDen == 20
glitchMaxDuration == 350
explosionMaxLife == 800
cubeHalf == 30000
cubeSpacingHalf == 33000
lookahead == 15
pruneMargin == 900000
fallOut == -600000
introZ == 180000
gameZ == 600000
firstPlatformY == 120000
startPlatformY == -120000
hashMultiplier == 761

-----------------------------------------------------------------------------
(* Arithmetic helpers *)

Min(a, b) == IF a <= b THEN a ELSE b
Max(a, b) == IF a >= b THEN a ELSE b
Abs(a) == IF a >= 0 THEN a ELSE -a
\* integer quotient truncated toward zero, as the fixed-point image of a product
TruncDiv(a, b) == IF a >= 0 THEN a \div b ELSE -((-a) \div b)

\* Number.prototype.toString for a non-negative integer: its decimal digits
RECURSIVE toString(_)
toString(n) == IF n < 10 THEN <<n>> ELSE Append(toString(n \div 10), n % 10)

\* parseInt(s, 10) of a string of decimal digits
RECURSIVE parseInt(_)
parseInt(s) ==
  IF Len(s) = 0 THEN 0
  ELSE 10 * parseInt(SubSeq(s, 1, Len(s) - 1)) + s[Len(s)]

-----------------------------------------------------------------------------
(* Difficulty model *)

\* faulty variant of getDifficultyGravity: the difficulty term is left out
getDifficultyGravity_flat(sc) == baseGravity

getDifficultyGravity(sc) == baseGravity + Min(60, sc)
\* faulty variant of getDifficultyPlatformSpacing: the spacing grows ten times
\* as fast and is not capped
getDifficultyPlatformSpacing_uncapped(sc) == 210000 + sc * 12000

getDifficultyPlatformSpacing(sc) ==
  IF sc <= 15 THEN 210000 + sc * 1200
  ELSE IF sc <= 30 THEN 228000 + (sc - 15) * 800
  ELSE IF sc <= 50 THEN 240000 + (sc - 30) * 600
  ELSE 252000

getDifficultyMovementSpeed(sc) ==
  IF sc < 5 THEN 0
  ELSE IF sc <= 15 THEN 180 + (sc - 5) * 30
  ELSE IF sc <= 35 THEN 480 + (sc - 15) * 21
  ELSE IF sc <= 60 THEN 900 + (sc - 35) * 24
  ELSE 1500

\* movement chance times 1000
getDifficultyMovementChance(sc) ==
  IF sc < 5 THEN 0
  ELSE IF sc <= 10 THEN 120 + (sc - 5) * 16
  ELSE IF sc <= 25 THEN 200 + (sc - 10) * 10
  ELSE IF sc <= 50 THEN 350 + (sc - 25) * 8
  ELSE IF sc <= 75 THEN 550 + (sc - 50) * 6
  ELSE 800

\* faulty variant of getDifficultyPlatformCubeCount: the bands above score 10
\* are left out, so the early-game counts are used at every score
getDifficultyPlatformCubeCount_early(sc, random) ==
  IF random < 800 - 30 * Min(10, sc) THEN 4 ELSE 3

\* random is the Math.random() draw in thousandths; each comparison is the
\* source's "random < chance" with both sides multiplied by a common factor
getDifficultyPlatformCubeCount(sc, random) ==
  IF sc <= 10 THEN
    (IF random < 800 - 30 * sc THEN 4 ELSE 3)
  ELSE IF sc <= 25 THEN
    (IF random * 15 < 7500 - (sc - 10) * 400 THEN 4 ELSE 3)
  ELSE IF sc <= 40 THEN
    (IF random * 15 < 13500 - (sc - 25) * 400 THEN 3 ELSE 2)
  ELSE IF sc <= 60 THEN
    (IF random < 500 - (sc - 40) * 20 THEN 3 ELSE 2)
  ELSE IF sc <= 80 THEN
    (IF random < 900 - (sc - 60) * 20 THEN 2 ELSE 1)
  ELSE
    (IF random * 40 < 20000 - Min(40, sc - 80) * 300 THEN 2 ELSE 1)

-----------------------------------------------------------------------------
(* Math.random(): the draws of one sequence, by what they are used for *)

\* the draw for the x position of the platform with creation index idx
XDraw(sd, idx) ==
  IF sd = 1 THEN 0
  ELSE IF sd = 2 THEN (IF idx = 1 THEN 500 ELSE 999)
  ELSE (IF idx < LadderLen THEN 500 ELSE 0)

\* the draw for the cube count of the platform with creation index idx
CubeDraw(sd, idx) ==
  IF sd = 2 /\ idx = 1 THEN 0 ELSE 900

\* the three draws of triggerGlitch
GlitchDraw(sd) == IF sd = 1 THEN <<0, 500, 999>> ELSE <<999, 0, 500>>

\* the draw compared with 0.2 at a landing that brings the score to sc
SpinDraw(sd, sc) == IF sd >= 2 /\ sc % 2 = 0 THEN 100 ELSE 600

-----------------------------------------------------------------------------
(* High score *)

loadHighScore(stg) ==
  IF stg.readFails THEN 0
  ELSE IF Len(stg.item) = 0 THEN 0 ELSE parseInt(stg.item)

saveHighScore(stg, sc) ==
  IF stg.writeFails THEN stg ELSE [stg EXCEPT !.item = toString(sc)]

\* faulty variant of updateHighScore: the comparison with the high score is left out
updateHighScore_always(currentScore, hs, stg) ==
  [highScore |-> currentScore, storage |-> saveHighScore(stg, currentScore)]

\* faulty variant of updateHighScore: a failing write is not caught, so the
\* assignment of the new high score is lost with it
updateHighScore_abortOnFailure(currentScore, hs, stg) ==
  IF currentScore > hs /\ ~stg.writeFails
  THEN [highScore |-> currentScore, storage |-> saveHighScore(stg, currentScore)]
  ELSE [highScore |-> hs, storage |-> stg]

updateHighScore(currentScore, hs, stg) ==
  IF currentScore > hs
  THEN [highScore |-> currentScore, storage |-> saveHighScore(stg, currentScore)]
  ELSE [highScore |-> hs, storage |-> stg]

-----------------------------------------------------------------------------
(* Camera *)

\* camera.aspect * tan(fov / 2) * camera.position.z for a 3:2 window (fov 60)
viewportHalfWidth(z) == (z * 866) \div 1000

\* easeInOutCubic of p/75, times 75^3
easedT(p) ==
  IF 2 * p < 75 THEN 4 * p * p * p
  ELSE 421875 - 4 * (75 - p) * (75 - p) * (75 - p)

CameraStep(cam) ==
  IF ~cam.animating THEN cam
  ELSE
    LET p == cam.animationProgress + introStep IN
    IF p >= introDuration
    THEN [z |-> gameZ, animating |-> FALSE, animationProgress |-> p]
    \* introZ + (gameZ - introZ) * easedT, and (gameZ - introZ) / 75^3 = 224/225
    ELSE [z |-> introZ + (easedT(p) * 224) \div 225,
          animating |-> TRUE, animationProgress |-> p]

-----------------------------------------------------------------------------
(* Platforms *)

createPlatform(x, y, sc, random, idx, uid, z) ==
  LET cubeCount == getDifficultyPlatformCubeCount(sc, random) IN
  [ position |-> [x |-> x, y |-> y],
    size |-> [width |-> cubeCount * 2 * cubeSpacingHalf],
    cubes |-> [i \in 1..cubeCount |->
                [ position |-> [x |-> x + (2 * (i - 1) - (cubeCount - 1)) * cubeSpacingHalf,
                                y |-> y],
                  isHit |-> FALSE, falling |-> FALSE, fallVelocity |-> 0 ]],
    platformIndex |-> idx,
    movement |-> [ enabled |-> FALSE,
                   direction |-> IF idx % 2 = 0 THEN 1 ELSE -1,
                   speed |-> getDifficultyMovementSpeed(sc),
                   range |-> 2 * viewportHalfWidth(z),
                   centerX |-> x ],
    uid |-> uid ]

\* faulty variant of generatePlatforms: no platform is added
generatePlatforms_nothing(g, sc, z, sd) == g

\* g = [platforms, nextPlatformY, counter, ever]
RECURSIVE generatePlatforms(_, _, _, _)
generatePlatforms(g, sc, z, sd) ==
  IF Len(g.platforms) >= lookahead THEN g
  ELSE
    \* (Math.random() - 0.5) * (viewportHalfWidth * 1.8)
    LET x == TruncDiv((XDraw(sd, g.counter) - 500) * ((viewportHalfWidth(z) * 18) \div 10), 1000)
        p == createPlatform(x, g.nextPlatformY, sc, CubeDraw(sd, g.counter),
                            g.counter, g.ever, z)
    IN generatePlatforms(
         [ platforms |-> Append(g.platforms, p),
           nextPlatformY |-> g.nextPlatformY + getDifficultyPlatformSpacing(sc),
           counter |-> g.counter + 1,
           ever |-> g.ever + 1 ], sc, z, sd)

\* faulty variant of StartingPlatforms: the first platform does not advance
\* the counter
StartingPlatforms_counterNotAdvanced(ever, sd) ==
  generatePlatforms(
    [ platforms |-> << createPlatform(0, startPlatformY, 0, CubeDraw(sd, 0), 0, ever, introZ) >>,
      nextPlatformY |-> firstPlatformY,
      counter |-> 0,
      ever |-> ever + 1 ], 0, introZ, sd)

\* createPlatform(0, -2) followed by generatePlatforms(), from no platforms
StartingPlatforms(ever, sd) ==
  generatePlatforms(
    [ platforms |-> << createPlatform(0, startPlatformY, 0, CubeDraw(sd, 0), 0, ever, introZ) >>,
      nextPlatformY |-> firstPlatformY,
      counter |-> 1,
      ever |-> ever + 1 ], 0, introZ, sd)

-----------------------------------------------------------------------------
(* Collision *)

\* the overlap test of checkPlatformCollision and of the intro
Overlaps(cube, playerX, playerY) ==
  /\ playerX + playerRadius > cube.position.x - cubeHalf
  /\ playerX - playerRadius < cube.position.x + cubeHalf
  /\ playerY - playerRadius <= cube.position.y + cubeHalf
  /\ playerY - playerRadius >= cube.position.y - cubeHalf

SetMin(S) == CHOOSE a \in S : \A b \in S : a <= b

\* faulty variant of FirstHit: the scan of a platform keeps the last
\* overlapping cube instead of stopping at the first
FirstHit_lastCube(ps, playerX, playerY) ==
  LET hitIn(i) == {j \in 1..Len(ps[i].cubes) : Overlaps(ps[i].cubes[j], playerX, playerY)}
      cands == {i \in 1..Len(ps) : hitIn(i) # {}}
  IN IF cands = {} THEN <<0, 0>>
     ELSE LET i == SetMin(cands) IN <<i, -SetMin({-j : j \in hitIn(i)})>>

\* first overlapping cube in platform order then cube order, <<0, 0>> if none
FirstHit(ps, playerX, playerY) ==
  LET hitIn(i) == {j \in 1..Len(ps[i].cubes) : Overlaps(ps[i].cubes[j], playerX, playerY)}
      cands == {i \in 1..Len(ps) : hitIn(i) # {}}
  IN IF cands = {} THEN <<0, 0>>
     ELSE LET i == SetMin(cands) IN <<i, SetMin(hitIn(i))>>

\* faulty variant of HitCube: the segment is scored but not marked as hit
HitCube_unmarked(l, i, j) ==
  IF l.platforms[i].cubes[j].isHit THEN l
  ELSE
    LET h == updateHighScore(l.score + 1, l.highScore, l.storage) IN
    [ platforms |-> [l.platforms EXCEPT ![i].cubes[j].falling = TRUE,
                                        ![i].cubes[j].fallVelocity = 0],
      score |-> l.score + 1,
      highScore |-> h.highScore,
      storage |-> h.storage ]

\* faulty variant of HitCube: the hit segment does not start falling
HitCube_notFalling(l, i, j) ==
  IF l.platforms[i].cubes[j].isHit THEN l
  ELSE
    LET h == updateHighScore(l.score + 1, l.highScore, l.storage) IN
    [ platforms |-> [l.platforms EXCEPT ![i].cubes[j].isHit = TRUE],
      score |-> l.score + 1,
      highScore |-> h.highScore,
      storage |-> h.storage ]

\* the "if (!cube.isHit) { ... }" block: l = [platforms, score, highScore, storage]
HitCube(l, i, j) ==
  IF l.platforms[i].cubes[j].isHit THEN l
  ELSE
    LET h == updateHighScore(l.score + 1, l.highScore, l.storage) IN
    [ platforms |-> [l.platforms EXCEPT ![i].cubes[j].isHit = TRUE,
                                        ![i].cubes[j].falling = TRUE,
                                        ![i].cubes[j].fallVelocity = 0],
      score |-> l.score + 1,
      highScore |-> h.highScore,
      storage |-> h.storage ]

\* faulty variant of triggerGlitch: the elapsed time is not set back to 0
triggerGlitch_noRestart(gl, sd) ==
  [ active |-> TRUE,
    duration |-> gl.duration,
    intensity |-> 800000 + GlitchDraw(sd)[1] * 600,
    digitalNoise |-> 300000 + GlitchDraw(sd)[2] * 250,
    rgbShift |-> 800000 + GlitchDraw(sd)[3] * 600 ]

triggerGlitch(gl, sd) ==
  [ active |-> TRUE,
    duration |-> 0,
    intensity |-> 800000 + GlitchDraw(sd)[1] * 600,
    digitalNoise |-> 300000 + GlitchDraw(sd)[2] * 250,
    rgbShift |-> 800000 + GlitchDraw(sd)[3] * 600 ]

startBackspin(pl) == [pl EXCEPT !.spinning = TRUE, !.spinProgress = 0]

updateBackspin(pl) ==
  IF ~pl.spinning THEN pl
  ELSE IF pl.spinProgress + spinSpeed >= spinFull
       THEN [pl EXCEPT !.spinning = FALSE, !.spinProgress = 0]
       ELSE [pl EXCEPT !.spinProgress = pl.spinProgress + spinSpeed]

-----------------------------------------------------------------------------
(* The effects advanced by a Playing tick *)

\* (1 - progress^1.8) * (sin(20 * progress) * 0.1 + 0.9), times 1000, for
\* progress = 16k/350, k = 1..21 (the values of duration below maxDuration)
GlitchEase ==
  << 975, 983, 913, 811, 745, 748, 794, 825, 792, 701, 597,
     529, 509, 510, 489, 425, 334, 246, 179, 126, 66 >>

easeOut(duration) == GlitchEase[duration \div tickMs]

\* faulty variant of updateGlitch: the glitch decays but is never finished
updateGlitch_neverEnds(gl, gp) ==
  IF ~gl.active THEN [glitch |-> gl, glitchPass |-> gp]
  ELSE
    LET d == Min(gl.duration + tickMs, glitchMaxDuration - tickMs) IN
    [ glitch |-> [gl EXCEPT !.duration = d],
      glitchPass |-> [glitchIntensity |-> (gl.intensity * easeOut(d)) \div 1000,
                      digitalNoiseIntensity |-> (gl.digitalNoise * easeOut(d)) \div 1000,
                      rgbShiftIntensity |-> (gl.rgbShift * easeOut(d)) \div 1000] ]

\* "Update glitch effect": gives the new glitch and the new uniforms
updateGlitch(gl, gp) ==
  IF ~gl.active THEN [glitch |-> gl, glitchPass |-> gp]
  ELSE
    LET d == gl.duration + tickMs IN
    IF d >= glitchMaxDuration
    THEN [ glitch |-> [gl EXCEPT !.duration = d, !.active = FALSE],
           glitchPass |-> [glitchIntensity |-> 0, digitalNoiseIntensity |-> 0,
                           rgbShiftIntensity |-> 0] ]
    ELSE [ glitch |-> [gl EXCEPT !.duration = d],
           glitchPass |-> [glitchIntensity |-> (gl.intensity * easeOut(d)) \div 1000,
                           digitalNoiseIntensity |-> (gl.digitalNoise * easeOut(d)) \div 1000,
                           rgbShiftIntensity |-> (gl.rgbShift * easeOut(d)) \div 1000] ]

\* "Update explosions": age each, drop the expired ones
updateExplosions(ex) ==
  SelectSeq([i \in 1..Len(ex) |-> [life |-> ex[i].life + tickMs]],
            LAMBDA e : e.life < explosionMaxLife)

\* faulty variant of WorldOffsetStep: the step is 1 + smoothing of the gap
WorldOffsetStep_overshoot(offset, playerY) ==
  offset + TruncDiv(((-playerY) - offset) * (smoothingDen + 1), smoothingDen)

\* "Smooth world offset follow"
WorldOffsetStep(offset, playerY) ==
  offset + TruncDiv((-playerY) - offset, smoothingDen)

\* faulty variant of ShouldMove: the index is compared without being hashed
ShouldMove_unhashed(idx, sc) ==
  sc >= 5 /\ (idx % 1000) < getDifficultyMovementChance(sc)

\* "NEW MOVEMENT LOGIC": does the platform with this index move at this score
\* ((platformIndex * 2654435761) % 1000, with the multiplier reduced mod 1000)
ShouldMove(idx, sc) ==
  sc >= 5 /\ ((idx * hashMultiplier) % 1000) < getDifficultyMovementChance(sc)

\* faulty variant of MovePosition: the position is clamped to the viewport but
\* the direction is never reversed there
MovePosition_keepsDirection(x, mv, speed, maxX, minX) ==
  LET x1 == x + mv.direction * speed IN
  IF x1 > maxX THEN <<maxX, mv.direction>>
  ELSE IF x1 < minX THEN <<minX, mv.direction>>
  ELSE <<x1, mv.direction>>

\* "Handle platform movement (side to side)": <<x, direction>> of a moving
\* platform after the step, the bounds checks and the range check
MovePosition(x, mv, speed, maxX, minX) ==
  LET x1 == x + mv.direction * speed IN
  IF x1 > maxX THEN <<maxX, -1>>
  ELSE IF x1 < minX THEN <<minX, 1>>
  ELSE IF Abs(x1 - mv.centerX) >= mv.range THEN
    LET d2 == -mv.direction
        x2 == mv.centerX + d2 * (-1) * mv.range
    IN IF x2 > maxX THEN <<maxX, -1>>
       ELSE IF x2 < minX THEN <<minX, 1>>
       ELSE <<x2, d2>>
  ELSE <<x1, mv.direction>>

\* faulty variant of PlaceCubes: the cubes stay where they are
PlaceCubes_stale(cubes, x) == cubes

\* "Update cube positions": the cubes of a moving platform follow its centre x
PlaceCubes(cubes, x) ==
  [j \in 1..Len(cubes) |->
     [cubes[j] EXCEPT !.position.x = x + (2 * (j - 1) - (Len(cubes) - 1)) * cubeSpacingHalf]]

\* the body of gameState.platforms.forEach in updateGame, for one platform
UpdatePlatform(p, sc, W) ==
  LET cubes1 == [j \in 1..Len(p.cubes) |->
                   LET c == p.cubes[j] IN
                   IF c.falling
                   THEN [c EXCEPT !.fallVelocity = c.fallVelocity + getDifficultyGravity(sc),
                                  !.position.y = c.position.y + c.fallVelocity
                                                 + getDifficultyGravity(sc)]
                   ELSE c]
      enabled == ShouldMove(p.platformIndex, sc)
      speed == IF sc >= 5 THEN getDifficultyMovementSpeed(sc) ELSE p.movement.speed
      mv == p.movement
      moved == MovePosition(p.position.x, mv, speed,
                            W - p.size.width \div 2, (-W) + p.size.width \div 2)
  IN
  \* nothing falls and nothing moves: the platform is left as it is
  IF ~enabled /\ ~mv.enabled /\ speed = mv.speed /\ \A j \in 1..Len(p.cubes) : ~p.cubes[j].falling
  THEN p
  ELSE IF enabled
  THEN [p EXCEPT !.position.x = moved[1],
                 !.movement = [mv EXCEPT !.enabled = TRUE, !.speed = speed,
                                         !.direction = moved[2]],
                 !.cubes = PlaceCubes(cubes1, moved[1])]
  ELSE [p EXCEPT !.movement = [mv EXCEPT !.enabled = FALSE, !.speed = speed],
                 !.cubes = cubes1]

\* faulty variant of Prune: a platform goes as soon as one of its segments
\* has fallen below the margin
Prune_fallenSegments(ps, playerY) ==
  SelectSeq(ps, LAMBDA p :
    \A j \in 1..Len(p.cubes) : ~(p.cubes[j].position.y < playerY - pruneMargin))

\* "Remove platforms that are too far below"
Prune(ps, playerY) ==
  SelectSeq(ps, LAMBDA p : ~(p.position.y < playerY - pruneMargin))

-----------------------------------------------------------------------------
(* History records *)

NoLanding == [landed |-> FALSE, newHit |-> FALSE, landUid |-> -1, landCube |-> 0]

\* what a step that is not a tick records
InputHist(kind) ==
  [ kind |-> kind, branch |-> "none", landed |-> FALSE, newHit |-> FALSE,
    landUid |-> -1, landCube |-> 0, doubleJump |-> FALSE, gameOver |-> FALSE,
    finalScore |-> 0, adjHeight |-> 0 ]

TickHist(branch, land, dj, over, final, adj) ==
  [ kind |-> "tick", branch |-> branch, landed |-> land.landed,
    newHit |-> land.newHit, landUid |-> land.landUid, landCube |-> land.landCube,
    doubleJump |-> dj, gameOver |-> over, finalScore |-> final, adjHeight |-> adj ]

NotStarted == ~gameStarted /\ ~introAnimation.active
IntroFalling == ~gameStarted /\ introAnimation.active
Playing == gameStarted /\ ~introAnimation.active

-----------------------------------------------------------------------------
(* checkPlatformCollision *)

\* the player after a landing on the segment cube in a Playing tick, draw being
\* the value of Math.random() in thousandths: the bounce, the snap to the top
\* of the segment, the double-jump charge and the spin with a chance of 20%
LandOnCube(pl, cube, draw) ==
  LET pl1 == [pl EXCEPT !.velocity.y = jumpVelocity,
                        !.onGround = TRUE,
                        !.position.y = cube.position.y + cubeHalf + playerRadius,
                        !.doubleJumpAvailable = TRUE,
                        !.hasDoubleJumped = FALSE]
  IN IF draw < 200 THEN startBackspin(pl1) ELSE pl1

\* the result for the player pl (already moved), as a record of what changed
checkPlatformCollision(pl, ps, sc, hs, stg, gl, ex, sd) ==
  LET hit == IF pl.velocity.y > 0 THEN <<0, 0>>
             ELSE FirstHit(ps, pl.position.x, pl.position.y)
      none == [ player |-> pl, platforms |-> ps, score |-> sc, highScore |-> hs,
                storage |-> stg, glitch |-> gl, explosions |-> ex,
                land |-> NoLanding ]
  IN
  IF hit[1] = 0 THEN none
  ELSE
    LET i == hit[1]
        j == hit[2]
        cube == ps[i].cubes[j]
        l == HitCube([platforms |-> ps, score |-> sc, highScore |-> hs, storage |-> stg], i, j)
    IN [ player |-> LandOnCube(pl, cube, SpinDraw(sd, l.score)),
         platforms |-> l.platforms, score |-> l.score,
         highScore |-> l.highScore, storage |-> l.storage,
         glitch |-> triggerGlitch(gl, sd),
         explosions |-> Append(ex, [life |-> 0]),
         land |-> [landed |-> TRUE, newHit |-> ~cube.isHit,
                   landUid |-> ps[i].uid, landCube |-> j] ]

-----------------------------------------------------------------------------
(* updateGame *)

\* faulty variant of InDelay: the delay is skipped
InDelay_none(ia) == FALSE

\* faulty variant of InDelay: the delay never ends
InDelay_forever(ia) == TRUE

\* "Handle delay period first": is the delay still running
InDelay(ia) == ia.delayProgress < introDelay

\* faulty variant of endIntro: the intro animation is left active
endIntro_stillActive(ia, progress) == [ia EXCEPT !.progress = progress]

\* "Hit platform - end intro and start game": the intro animation afterwards
endIntro(ia, progress) == [ia EXCEPT !.progress = progress, !.active = FALSE]

\* faulty variant of resetPlayer: the double-jump flags are not reset
resetPlayer_keepsCharge(pl) ==
  [pl EXCEPT !.position = [x |-> 0, y |-> 0],
             !.velocity = [x |-> 0, y |-> 0],
             !.spinning = FALSE,
             !.spinProgress = 0]

\* the player after "Reset game state"
resetPlayer(pl) ==
  [pl EXCEPT !.position = [x |-> 0, y |-> 0],
             !.velocity = [x |-> 0, y |-> 0],
             !.spinning = FALSE,
             !.spinProgress = 0,
             !.doubleJumpAvailable = FALSE,
             !.hasDoubleJumped = FALSE]

\* the tick while the intro animation is active and the delay is running
IntroDelayTick ==
  /\ introAnimation' = [introAnimation EXCEPT !.delayProgress = @ + tickMs]
  /\ camera' = CameraStep(camera)
  /\ phaseTick' = phaseTick + 1
  /\ hist' = TickHist("delay", NoLanding, FALSE, FALSE, 0, 0)
  /\ UNCHANGED << copilotModel, gameStarted, player, world, glitch, glitchPass,
                  platforms, explosions, nextPlatformY, globalPlatformCounter,
                  score, highScore, storage, gkeys, keys, keyPressed, touch,
                  startPrompt, seed, everCreated, runStartHigh, runs, inputs >>

\* the tick while the intro animation is active and the delay has elapsed
IntroFallTick ==
  LET vy == player.velocity.y + getDifficultyGravity(score)
      y == player.position.y + vy
      progress == introAnimation.progress + introStep
      timedOut == progress >= introDuration
      hit == IF vy <= 0 THEN FirstHit(platforms, player.position.x, y) ELSE <<0, 0>>
  IN
  /\ camera' = CameraStep(camera)
  /\ IF hit[1] = 0
     THEN /\ player' = [player EXCEPT !.velocity.y = vy, !.position.y = y]
          /\ introAnimation' = [introAnimation EXCEPT !.progress = progress,
                                                      !.active = ~timedOut]
          /\ gameStarted' = timedOut
          /\ phaseTick' = IF timedOut THEN 0 ELSE phaseTick + 1
          /\ hist' = TickHist("intro", NoLanding, FALSE, FALSE, 0, 0)
          /\ UNCHANGED << platforms, score, highScore, storage, explosions, glitch >>
     ELSE LET i == hit[1]
              j == hit[2]
              cube == platforms[i].cubes[j]
              l == HitCube([platforms |-> platforms, score |-> score,
                            highScore |-> highScore, storage |-> storage], i, j)
          IN
          /\ platforms' = l.platforms
          /\ score' = l.score
          /\ highScore' = l.highScore
          /\ storage' = l.storage
          /\ introAnimation' = endIntro(introAnimation, progress)
          /\ gameStarted' = TRUE
          /\ player' = [player EXCEPT !.position.y = cube.position.y + cubeHalf + playerRadius,
                                      !.velocity.y = jumpVelocity,
                                      !.doubleJumpAvailable = TRUE,
                                      !.hasDoubleJumped = FALSE]
          /\ explosions' = Append(explosions, [life |-> 0])
          /\ glitch' = triggerGlitch(glitch, seed)
          /\ phaseTick' = 0
          /\ hist' = TickHist("intro",
                              [landed |-> TRUE, newHit |-> ~cube.isHit,
                               landUid |-> platforms[i].uid, landCube |-> j],
                              FALSE, FALSE, 0, 0)
  /\ UNCHANGED << copilotModel, world, glitchPass, nextPlatformY,
                  globalPlatformCounter, gkeys, keys, keyPressed, touch,
                  startPrompt, seed, everCreated, runStartHigh, runs, inputs >>

\* the tick in NotStarted: the model is held at the origin
IdleTick ==
  /\ camera' = CameraStep(camera)
  /\ hist' = TickHist("idle", NoLanding, FALSE, FALSE, 0, 0)
  /\ UNCHANGED << copilotModel, gameStarted, introAnimation, player, world,
                  glitch, glitchPass, platforms, explosions, nextPlatformY,
                  globalPlatformCounter, score, highScore, storage, gkeys, keys,
                  keyPressed, touch, startPrompt, seed, everCreated,
                  runStartHigh, runs, inputs, phaseTick >>

\* faulty variant of performDoubleJump: the velocity of a landing bounce is used
performDoubleJump_jumpVelocity(pl) ==
  startBackspin([pl EXCEPT !.velocity.y = jumpVelocity,
                           !.hasDoubleJumped = TRUE,
                           !.doubleJumpAvailable = FALSE])

\* "Perform double jump"
performDoubleJump(pl) ==
  startBackspin([pl EXCEPT !.velocity.y = doubleJumpVelocity,
                           !.hasDoubleJumped = TRUE,
                           !.doubleJumpAvailable = FALSE])

\* the Playing tick after checkPlatformCollision (whose result is col) up to,
\* and without, the game-over check
PlayAfterCollision(cam, dj, col) ==
  LET W == viewportHalfWidth(cam.z)
      pl3 == updateBackspin([col.player EXCEPT !.onGround = FALSE])
      gl == updateGlitch(col.glitch, glitchPass)
      ex == updateExplosions(col.explosions)
      off == WorldOffsetStep(world.offset, pl3.position.y)
      ps1 == [i \in 1..Len(col.platforms) |-> UpdatePlatform(col.platforms[i], col.score, W)]
      gen == IF pl3.position.y > nextPlatformY - 20 * Unit
             THEN generatePlatforms([platforms |-> ps1, nextPlatformY |-> nextPlatformY,
                                     counter |-> globalPlatformCounter,
                                     ever |-> everCreated], col.score, cam.z, seed)
             ELSE [platforms |-> ps1, nextPlatformY |-> nextPlatformY,
                   counter |-> globalPlatformCounter, ever |-> everCreated]
  IN [ camera |-> cam, player |-> pl3, score |-> col.score,
       highScore |-> col.highScore, storage |-> col.storage,
       glitch |-> gl.glitch, glitchPass |-> gl.glitchPass, explosions |-> ex,
       world |-> [offset |-> off, targetOffset |-> -pl3.position.y],
       platforms |-> Prune(gen.platforms, pl3.position.y),
       nextPlatformY |-> gen.nextPlatformY, counter |-> gen.counter,
       ever |-> gen.ever, land |-> col.land, doubleJump |-> dj,
       adjHeight |-> pl3.position.y + off ]

\* the Playing tick up to, and without, the game-over check
PlayCore ==
  LET cam == CameraStep(camera)
      vx == IF gkeys.left THEN -moveSpeed
            ELSE IF gkeys.right THEN moveSpeed
            ELSE TruncDiv(player.velocity.x * 9, 10)
      dj == /\ keyPressed \cap {"ArrowUp", "KeyW", "Space"} # {}
            /\ player.doubleJumpAvailable
            /\ ~player.hasDoubleJumped
      pl1 == IF dj THEN performDoubleJump(player) ELSE player
      vy == pl1.velocity.y + getDifficultyGravity(score)
      W == viewportHalfWidth(cam.z)
      x1 == player.position.x + vx
      x2 == IF x1 > W THEN -W ELSE IF x1 < -W THEN W ELSE x1
      pl2 == [pl1 EXCEPT !.velocity = [x |-> vx, y |-> vy],
                         !.position = [x |-> x2, y |-> player.position.y + vy]]
  IN PlayAfterCollision(cam, dj,
       checkPlatformCollision(pl2, platforms, score, highScore, storage,
                              glitch, explosions, seed))

\* faulty variant of GameOverCheck: the run ends at half the fall-out depth
GameOverCheck_early(adjHeight) == adjHeight < fallOut \div 2

\* "Game over check": is the run over after this tick's movement
GameOverCheck(adjHeight) == adjHeight < fallOut

\* the rest of a Playing tick that does not end the run
PlayContinue(c) ==
  /\ camera' = c.camera
  /\ player' = c.player
  /\ score' = c.score
  /\ highScore' = c.highScore
  /\ storage' = c.storage
  /\ glitch' = c.glitch
  /\ glitchPass' = c.glitchPass
  /\ explosions' = c.explosions
  /\ world' = c.world
  /\ platforms' = c.platforms
  /\ nextPlatformY' = c.nextPlatformY
  /\ globalPlatformCounter' = c.counter
  /\ everCreated' = c.ever
  /\ startPrompt' = FALSE
  /\ keyPressed' = {}
  /\ phaseTick' = phaseTick + 1
  /\ hist' = TickHist("play", c.land, c.doubleJump, FALSE, 0, c.adjHeight)
  /\ UNCHANGED << copilotModel, gameStarted, introAnimation, gkeys, keys, touch,
                  seed, runStartHigh, runs, inputs >>

\* the rest of a Playing tick that ends the run: "Reset game state"
GameOverReset(c) ==
  /\ \E sd \in Seeds :
       LET g == StartingPlatforms(c.ever, sd) IN
       /\ seed' = sd
       /\ platforms' = g.platforms
       /\ nextPlatformY' = g.nextPlatformY
       /\ globalPlatformCounter' = g.counter
       /\ everCreated' = g.ever
  /\ gameStarted' = FALSE
  /\ introAnimation' = [active |-> FALSE, progress |-> 0, delayProgress |-> 0]
  /\ player' = resetPlayer(c.player)
  /\ score' = 0
  /\ world' = [offset |-> 0, targetOffset |-> 0]
  /\ camera' = [z |-> introZ, animating |-> FALSE, animationProgress |-> 0]
  /\ explosions' = << >>
  /\ highScore' = c.highScore
  /\ storage' = c.storage
  /\ glitch' = c.glitch
  /\ glitchPass' = c.glitchPass
  /\ startPrompt' = TRUE
  /\ keyPressed' = {}
  /\ phaseTick' = 0
  /\ runStartHigh' = c.highScore
  /\ hist' = TickHist("play", c.land, c.doubleJump, TRUE, c.score, c.adjHeight)
  /\ UNCHANGED << copilotModel, gkeys, keys, touch, runs, inputs >>

\* the tick in Playing
\* the game-over check on the result c of the tick's movement, and what follows it
PlayEnd(c) ==
  IF GameOverCheck(c.adjHeight) THEN GameOverReset(c) ELSE PlayContinue(c)

\* the tick in Playing
PlayTick == PlayEnd(PlayCore)

\* one call of updateGame once the model is loaded (before that it returns at once)
Tick ==
  /\ copilotModel
  /\ IF introAnimation.active
     THEN IF InDelay(introAnimation)
          THEN IntroDelayTick
          ELSE IntroFallTick
     ELSE IF ~gameStarted
          THEN IdleTick
          ELSE PlayTick

-----------------------------------------------------------------------------
(* Input handlers *)

\* the budget of the explored input events
InputAllowed == inputs < MaxInputs /\ (NotStarted \/ phaseTick \in InputTicks)
StartAllowed == runs < MaxRuns

startGame ==
  IF gameStarted
  THEN UNCHANGED << introAnimation, player, camera >>
  ELSE /\ introAnimation' = [active |-> TRUE, progress |-> 0, delayProgress |-> 0]
       /\ player' = [player EXCEPT !.position = [x |-> 0, y |-> 0],
                                   !.velocity = [x |-> 0, y |-> 0]]
       /\ camera' = [camera EXCEPT !.animating = TRUE, !.animationProgress = 0]

\* the history of an input event; begins is TRUE when it begins a run
Account(kind, begins) ==
  /\ IF begins
     THEN StartAllowed /\ runs' = runs + 1 /\ inputs' = inputs /\ phaseTick' = 0
     ELSE InputAllowed /\ runs' = runs /\ inputs' = inputs + 1 /\ phaseTick' = phaseTick
  /\ hist' = InputHist(kind)

handleKeyDown(code) ==
  /\ Account("keydown", NotStarted /\ code = "Space")
  /\ keyPressed' = IF code \in keys THEN keyPressed \ {code} ELSE keyPressed \cup {code}
  /\ keys' = keys \cup {code}
  /\ IF code = "Space" /\ ~gameStarted
     THEN startGame /\ UNCHANGED gkeys
     ELSE /\ UNCHANGED << introAnimation, player, camera >>
          /\ gkeys' = IF ~gameStarted THEN gkeys
                      ELSE IF code \in {"ArrowLeft", "KeyA"} THEN [gkeys EXCEPT !.left = TRUE]
                      ELSE IF code \in {"ArrowRight", "KeyD"} THEN [gkeys EXCEPT !.right = TRUE]
                      ELSE gkeys
  /\ UNCHANGED << copilotModel, gameStarted, world, glitch, glitchPass, platforms,
                  explosions, nextPlatformY, globalPlatformCounter, score,
                  highScore, storage, touch, startPrompt, seed, everCreated,
                  runStartHigh >>

\* a key is released only while it is down
handleKeyUp(code) ==
  /\ code \in keys
  /\ Account("keyup", FALSE)
  /\ keys' = keys \ {code}
  /\ keyPressed' = keyPressed \ {code}
  /\ gkeys' = IF ~gameStarted THEN gkeys
              ELSE IF code \in {"ArrowLeft", "KeyA"} THEN [gkeys EXCEPT !.left = FALSE]
              ELSE IF code \in {"ArrowRight", "KeyD"} THEN [gkeys EXCEPT !.right = FALSE]
              ELSE gkeys
  /\ UNCHANGED << copilotModel, gameStarted, introAnimation, player, world, glitch,
                  glitchPass, platforms, explosions, nextPlatformY,
                  globalPlatformCounter, score, highScore, storage, touch, camera,
                  startPrompt, seed, everCreated, runStartHigh >>

\* the click listener of startPromptElement; a hidden element receives no click
Click ==
  /\ startPrompt
  /\ Account("click", NotStarted)
  /\ IF ~gameStarted
     THEN startGame
     ELSE UNCHANGED << introAnimation, player, camera >>
  /\ UNCHANGED << copilotModel, gameStarted, world, glitch, glitchPass, platforms,
                  explosions, nextPlatformY, globalPlatformCounter, score,
                  highScore, storage, gkeys, keys, keyPressed, touch, startPrompt,
                  seed, everCreated, runStartHigh >>

\* a finger goes down only while none is down
handleTouchStart ==
  /\ ~touch.isTouching
  /\ Account("touchstart", NotStarted)
  /\ touch' = [isTouching |-> TRUE, hasTriggeredDoubleJump |-> FALSE, hasMoved |-> FALSE]
  /\ IF ~gameStarted /\ ~introAnimation.active
     THEN startGame
     ELSE UNCHANGED << introAnimation, player, camera >>
  /\ UNCHANGED << copilotModel, gameStarted, world, glitch, glitchPass, platforms,
                  explosions, nextPlatformY, globalPlatformCounter, score,
                  highScore, storage, gkeys, keys, keyPressed, startPrompt, seed,
                  everCreated, runStartHigh >>

\* quick: the touch lasted less than 300 ms
handleTouchEnd(quick) ==
  /\ touch.isTouching
  /\ Account("touchend", FALSE)
  /\ keyPressed' = IF gameStarted /\ ~touch.hasTriggeredDoubleJump /\ ~touch.hasMoved /\ quick
                   THEN keyPressed \cup {"Space"}
                   ELSE keyPressed
  /\ touch' = [isTouching |-> FALSE, hasTriggeredDoubleJump |-> FALSE, hasMoved |-> FALSE]
  /\ gkeys' = [left |-> FALSE, right |-> FALSE]
  /\ UNCHANGED << copilotModel, gameStarted, introAnimation, player, world, glitch,
                  glitchPass, platforms, explosions, nextPlatformY,
                  globalPlatformCounter, score, highScore, storage, keys, camera,
                  startPrompt, seed, everCreated, runStartHigh >>

\* the GLTF loader's callback sets copilotModel
LoadModel ==
  /\ ~copilotModel
  /\ copilotModel' = TRUE
  /\ hist' = InputHist("load")
  /\ UNCHANGED << gameStarted, introAnimation, player, world, glitch, glitchPass,
                  platforms, explosions, nextPlatformY, globalPlatformCounter,
                  score, highScore, storage, gkeys, keys, keyPressed, touch,
                  camera, startPrompt, seed, everCreated, runStartHigh, runs,
                  inputs, phaseTick >>

-----------------------------------------------------------------------------
(* The program *)

\* gameState.player as constructed
InitialPlayer ==
  [ position |-> [x |-> 0, y |-> 0], velocity |-> [x |-> 0, y |-> 0],
    onGround |-> FALSE, spinning |-> FALSE, spinProgress |-> 0,
    doubleJumpAvailable |-> FALSE, hasDoubleJumped |-> FALSE ]

\* the state after the module's top-level code has run, but for the score, the
\* player, the world offset and the history record; sds are the Math.random()
\* sequences the start-up may use
InitialState(sds) ==
  /\ copilotModel = FALSE
  /\ gameStarted = FALSE
  /\ introAnimation = [active |-> FALSE, progress |-> 0, delayProgress |-> 0]
  /\ glitch = [active |-> FALSE, intensity |-> 0, digitalNoise |-> 0,
               rgbShift |-> 0, duration |-> 0]
  /\ glitchPass = [glitchIntensity |-> 0, digitalNoiseIntensity |-> 0,
                   rgbShiftIntensity |-> 0]
  /\ explosions = << >>
  /\ storage \in InitialStorage
  /\ highScore = loadHighScore(storage)
  /\ runStartHigh = highScore
  /\ gkeys = [left |-> FALSE, right |-> FALSE]
  /\ keys = {}
  /\ keyPressed = {}
  /\ touch = [isTouching |-> FALSE, hasTriggeredDoubleJump |-> FALSE, hasMoved |-> FALSE]
  /\ camera = [z |-> introZ, animating |-> FALSE, animationProgress |-> 0]
  /\ startPrompt = TRUE
  /\ seed \in sds
  /\ LET g == StartingPlatforms(0, seed) IN
       /\ platforms = g.platforms
       /\ nextPlatformY = g.nextPlatformY
       /\ globalPlatformCounter = g.counter
       /\ everCreated = g.ever
  /\ runs = 0
  /\ inputs = 0
  /\ phaseTick = 0

Init ==
  /\ InitialState(Seeds)
  /\ score = 0
  /\ player = InitialPlayer
  /\ world = [offset |-> 0, targetOffset |-> 0]
  /\ hist = InputHist("init")

Next ==
  \/ LoadModel
  \/ Tick
  \/ \E code \in Codes : handleKeyDown(code)
  \/ \E code \in Codes : handleKeyUp(code)
  \/ Click
  \/ handleTouchStart
  \/ \E quick \in BOOLEAN : handleTouchEnd(quick)

Spec == Init /\ [][Next]_vars

-----------------------------------------------------------------------------
(* Long runs: the platforms are stacked above the start and the player is   *)
(* not steered, so the run climbs, generates and removes platforms, reaches *)
(* the scores at which platforms move, and ends by falling out.             *)

InitLong ==
  /\ InitialState(LongSeeds)
  /\ score = 0
  /\ player = InitialPlayer
  /\ world = [offset |-> 0, targetOffset |-> 0]
  /\ hist = InputHist("init")

NextLong ==
  \/ LoadModel
  \/ Tick
  \/ Click

SpecLong == InitLong /\ [][NextLong]_vars


-----------------------------------------------------------------------------
(* The world-offset step on its own: the offset and the player's height are *)
(* drawn at the start and the step is applied again and again while the     *)
(* player stays where it is.                                                *)

OffsetStarts == {-10 * Unit, -Unit, -19, 0, 7, 20, 3 * Unit, 12 * Unit}
HeldHeights == {-8 * Unit, -1, 0, 5, 2 * Unit, 9 * Unit}

InitOffset ==
  /\ InitialState({1})
  /\ score = 0
  /\ \E y \in HeldHeights : player = [InitialPlayer EXCEPT !.position.y = y]
  /\ \E o \in OffsetStarts :
       world = [offset |-> o, targetOffset |-> -player.position.y]
  /\ hist = InputHist("init")

\* "Smooth world offset follow" with the player held still
OffsetTick ==
  /\ world' = [ offset |-> WorldOffsetStep(world.offset, player.position.y),
                targetOffset |-> -player.position.y ]
  /\ hist' = InputHist("offset")
  /\ UNCHANGED << copilotModel, gameStarted, introAnimation, player, glitch,
                  glitchPass, platforms, explosions, nextPlatformY,
                  globalPlatformCounter, score, highScore, storage, gkeys, keys,
                  keyPressed, touch, camera, startPrompt, seed, everCreated,
                  runStartHigh, runs, inputs, phaseTick >>

NextOffset == OffsetTick

SpecOffset == InitOffset /\ [][NextOffset]_vars

-----------------------------------------------------------------------------
(* getDifficultyPlatformCubeCount on its own: the score and the draw are    *)
(* chosen at the start and the function is applied to them.                 *)

\* the scores explored are 0..MaxCubeScore
MaxCubeScore == 120
\* the draws explored: every thousandth of [0, 1)
CubeDraws == 0..999

InitCubeCount ==
  /\ InitialState({1})
  /\ score \in 0..MaxCubeScore
  /\ player = InitialPlayer
  /\ world = [offset |-> 0, targetOffset |-> 0]
  /\ \E r \in CubeDraws : hist = [kind |-> "draw", random |-> r, cubeCount |-> 0]

\* one call of getDifficultyPlatformCubeCount at the current score
CubeCountCall ==
  /\ hist.kind = "draw"
  /\ hist' = [ kind |-> "cubeCount", random |-> hist.random,
               cubeCount |-> getDifficultyPlatformCubeCount(score, hist.random) ]
  /\ UNCHANGED << copilotModel, gameStarted, introAnimation, player, world,
                  glitch, glitchPass, platforms, explosions, nextPlatformY,
                  globalPlatformCounter, score, highScore, storage, gkeys, keys,
                  keyPressed, touch, camera, startPrompt, seed, everCreated,
                  runStartHigh, runs, inputs, phaseTick >>

NextCubeCount == CubeCountCall

SpecCubeCount == InitCubeCount /\ [][NextCubeCount]_vars

-----------------------------------------------------------------------------
(* The platform update loop on its own: one platform is created at a score  *)
(* at which platforms move, with the camera at its game distance, and the   *)
(* loop body is applied to it again and again while the score stays.        *)

\* the scores explored
MoveScores == {9}
\* the Math.random() draws for the x position, in thousandths
MoveXDraws == {0, 500, 999}
\* the Math.random() draws for the cube count, in thousandths
MoveCubeDraws == {0, 900}
\* the creation indexes explored: both parities, moving and not moving
MoveIndexes == {5, 8, 25}

InitMovement ==
  /\ copilotModel = TRUE
  /\ gameStarted = TRUE
  /\ introAnimation = [active |-> FALSE, progress |-> 0, delayProgress |-> introDelay]
  /\ glitch = [active |-> FALSE, intensity |-> 0, digitalNoise |-> 0,
               rgbShift |-> 0, duration |-> 0]
  /\ glitchPass = [glitchIntensity |-> 0, digitalNoiseIntensity |-> 0,
                   rgbShiftIntensity |-> 0]
  /\ explosions = << >>
  /\ storage = [item |-> <<>>, readFails |-> FALSE, writeFails |-> FALSE]
  /\ highScore = loadHighScore(storage)
  /\ runStartHigh = highScore
  /\ gkeys = [left |-> FALSE, right |-> FALSE]
  /\ keys = {}
  /\ keyPressed = {}
  /\ touch = [isTouching |-> FALSE, hasTriggeredDoubleJump |-> FALSE, hasMoved |-> FALSE]
  /\ camera = [z |-> gameZ, animating |-> FALSE, animationProgress |-> introDuration]
  /\ startPrompt = FALSE
  /\ seed = 1
  /\ score \in MoveScores
  /\ \E xd \in MoveXDraws, cd \in MoveCubeDraws, idx \in MoveIndexes :
       \* generatePlatforms: (Math.random() - 0.5) * (viewportHalfWidth * 1.8)
       LET x == TruncDiv((xd - 500) * ((viewportHalfWidth(camera.z) * 18) \div 10), 1000)
       IN /\ platforms = << createPlatform(x, 0, score, cd, idx, idx, camera.z) >>
          /\ globalPlatformCounter = idx + 1
          /\ everCreated = idx + 1
  /\ nextPlatformY = 0
  /\ player = InitialPlayer
  /\ world = [offset |-> 0, targetOffset |-> 0]
  /\ runs = 1
  /\ inputs = 0
  /\ phaseTick = 0
  /\ hist = InputHist("init")

\* "Update all platform positions": the loop over the platforms at the score
\* and the camera distance of the state
UpdatePlatforms ==
  /\ platforms' = [i \in 1..Len(platforms) |->
                     UpdatePlatform(platforms[i], score, viewportHalfWidth(camera.z))]
  /\ hist' = InputHist("platforms")
  /\ UNCHANGED << copilotModel, gameStarted, introAnimation, player, world,
                  glitch, glitchPass, explosions, nextPlatformY,
                  globalPlatformCounter, score, highScore, storage, gkeys, keys,
                  keyPressed, touch, camera, startPrompt, seed, everCreated,
                  runStartHigh, runs, inputs, phaseTick >>

NextMovement == UpdatePlatforms

SpecMovement == InitMovement /\ [][NextMovement]_vars

-----------------------------------------------------------------------------
(* A second run: the program starts in the state in which Spec leaves it at *)
(* the end of a first run (sequence 1, empty storage) during which the left *)
(* key was pressed while Playing and neither it nor the Space key that      *)
(* started the run has been released: the game-over reset has put           *)
(* everything back but the hold flags and the glitch's stored values.       *)

AfterRunWithLeftHeld ==
  /\ copilotModel = TRUE
  /\ gameStarted = FALSE
  /\ introAnimation = [active |-> FALSE, progress |-> 0, delayProgress |-> 0]
  /\ glitch = [active |-> FALSE, intensity |-> 800000, digitalNoise |-> 425000,
               rgbShift |-> 1399400, duration |-> 352]
  /\ glitchPass = [glitchIntensity |-> 0, digitalNoiseIntensity |-> 0,
                   rgbShiftIntensity |-> 0]
  /\ explosions = << >>
  /\ storage = [item |-> <<1>>, readFails |-> FALSE, writeFails |-> FALSE]
  /\ highScore = 1
  /\ runStartHigh = 1
  /\ gkeys = [left |-> TRUE, right |-> FALSE]
  /\ keys = {"Space", "ArrowLeft"}
  /\ keyPressed = {}
  /\ touch = [isTouching |-> FALSE, hasTriggeredDoubleJump |-> FALSE, hasMoved |-> FALSE]
  /\ camera = [z |-> introZ, animating |-> FALSE, animationProgress |-> 0]
  /\ startPrompt = TRUE
  /\ seed = 1
  /\ LET g == StartingPlatforms(15, seed) IN
       /\ platforms = g.platforms
       /\ nextPlatformY = g.nextPlatformY
       /\ globalPlatformCounter = g.counter
       /\ everCreated = g.ever
  /\ score = 0
  /\ player = InitialPlayer
  /\ world = [offset |-> 0, targetOffset |-> 0]
  /\ phaseTick = 0

InitSecondRun ==
  /\ AfterRunWithLeftHeld
  /\ runs = 0
  /\ inputs = 0
  /\ hist = InputHist("init")

NextSecondRun ==
  \/ Tick
  \/ \E code \in Codes : handleKeyDown(code)
  \/ \E code \in Codes : handleKeyUp(code)
  \/ Click

SpecSecondRun == InitSecondRun /\ [][NextSecondRun]_vars

-----------------------------------------------------------------------------
(* Properties of the program *)

\* a segment of the same platform (same uid, same place j) is un-hit before
\* the step and hit after it
NewlyHit ==
  \E i \in 1..Len(platforms), k \in 1..Len(platforms') :
    /\ platforms[i].uid = platforms'[k].uid
    /\ \E j \in 1..Len(platforms[i].cubes) :
         ~platforms[i].cubes[j].isHit /\ platforms'[k].cubes[j].isHit

\* a segment of the same platform is hit before the step and un-hit after it
HitReverted ==
  \E i \in 1..Len(platforms), k \in 1..Len(platforms') :
    /\ platforms[i].uid = platforms'[k].uid
    /\ \E j \in 1..Len(platforms[i].cubes) :
         platforms[i].cubes[j].isHit /\ ~platforms'[k].cubes[j].isHit

\* C1: a segment's isHit never returns from true to false, so it goes from
\* false to true at most once; in a step that is not a game over the score
\* grows by exactly 1 if and only if a segment went from un-hit to hit in that
\* step and otherwise stays as it is (input events included); the game-over
\* tick sets the score to 0.
C1_HitOnceScoresOne ==
  [][ /\ ~HitReverted
      /\ IF hist'.gameOver
         THEN score' = 0
         ELSE /\ score' \in {score, score + 1}
              /\ (score' = score + 1) <=> NewlyHit
              /\ hist'.newHit <=> NewlyHit ]_vars

\* C1 witness: a Playing tick has just resolved a landing on an un-hit
\* segment, which brought the score to 2 or more
C1_Witness ==
  /\ hist.kind = "tick" /\ hist.branch = "play"
  /\ hist.landed /\ hist.newHit
  /\ score >= 2
  /\ \E i \in 1..Len(platforms) :
       platforms[i].uid = hist.landUid /\ platforms[i].cubes[hist.landCube].isHit

\* the value persisted under the high-score key, read as the program reads it
StoredValue(stg) == IF Len(stg.item) = 0 THEN 0 ELSE parseInt(stg.item)

\* C2 as stated: at the game-over tick the in-memory high score and the
\* persisted value both equal max(high score before the run, final score).
C2_AsStated ==
  [][ hist'.gameOver =>
        LET M == Max(runStartHigh, hist'.finalScore) IN
        highScore' = M /\ StoredValue(storage') = M ]_vars

\* C2 amended: at the game-over tick the in-memory high score equals
\* max(high score before the run, final score); the persisted value equals
\* it too when the storage can be accessed, and when storage access throws
\* the storage is never changed by any step.
C2_HighScoreIsMax ==
  [][ /\ storage.writeFails => storage' = storage
      /\ hist'.gameOver =>
           LET M == Max(runStartHigh, hist'.finalScore) IN
           /\ highScore' = M
           /\ ~storage.writeFails => StoredValue(storage') = M ]_vars

\* C2 witness: a run has just ended with a final score of 3, above the stored
\* high score, and the accessible storage now holds "3"
C2_Witness ==
  /\ hist.gameOver /\ hist.finalScore = 3
  /\ highScore = 3
  /\ storage = [item |-> <<3>>, readFails |-> FALSE, writeFails |-> FALSE]

\* C3: a Playing tick ends the run if and only if the world-adjusted height
\* (player y plus world offset, after the movement and the offset update) is
\* below -10; when it does, the game is NotStarted at the end of the tick,
\* there are no explosions, no platform of the finished run is left and the
\* platform with index 0 is at (0, -2); when it does not, the game is still
\* Playing with that height at the end of the tick. No other step is a game over.
C3_FallOutEndsRun ==
  [][ IF Playing /\ hist'.kind = "tick"
      THEN /\ hist'.gameOver <=> hist'.adjHeight < -10 * Unit
           /\ hist'.gameOver =>
                /\ NotStarted'
                /\ explosions' = << >>
                /\ \A i \in 1..Len(platforms), k \in 1..Len(platforms') :
                     platforms[i].uid # platforms'[k].uid
                /\ Len(platforms') >= 1
                /\ platforms'[1].platformIndex = 0
                /\ platforms'[1].position = [x |-> 0, y |-> -2 * Unit]
           /\ ~hist'.gameOver =>
                /\ Playing'
                /\ player'.position.y + world'.offset = hist'.adjHeight
                /\ player'.position.y + world'.offset >= -10 * Unit
      ELSE ~hist'.gameOver ]_vars

\* C3 witness: the run has just ended in a tick whose world-adjusted height
\* was below -10
C3_Witness ==
  /\ hist.kind = "tick" /\ hist.gameOver
  /\ hist.adjHeight < -10 * Unit
  /\ NotStarted /\ explosions = << >>

\* the difficulty gravity as documented: -0.006 + min(score / 60, 1) * 0.001
DocumentedGravity(sc) == -360 + Min(60, sc)

\* C4 as stated: in every tick without a landing and without a double jump
\* velocity.y ends as its value before plus the gravity, strictly lower; every
\* tick with a landing ends with velocity.y equal to jumpVelocity.
C4_AsStated ==
  [][ hist'.kind = "tick" =>
        IF hist'.landed
        THEN player'.velocity.y = 15000
        ELSE ~hist'.doubleJump =>
               /\ player'.velocity.y = player.velocity.y + DocumentedGravity(score)
               /\ player'.velocity.y < player.velocity.y ]_vars

\* C4 amended: the statement holds for the ticks that integrate the player's
\* motion (the intro ticks after the delay and the Playing ticks that do not
\* end the run); the ticks in NotStarted and during the intro delay leave the
\* velocity as it is, and the game-over tick sets it to 0.
C4_GravityAndJump ==
  [][ hist'.kind = "tick" =>
        IF hist'.branch \in {"intro", "play"} /\ ~hist'.gameOver
        THEN IF hist'.landed
             THEN player'.velocity.y = 15000
             ELSE ~hist'.doubleJump =>
                    /\ player'.velocity.y = player.velocity.y + DocumentedGravity(score)
                    /\ player'.velocity.y < player.velocity.y
        ELSE IF hist'.gameOver
             THEN player'.velocity.y = 0
             ELSE player'.velocity = player.velocity ]_vars

\* C4 witness: a Playing tick at score 2 without landing or double jump has
\* just lowered an already negative velocity
C4_Witness ==
  /\ hist.kind = "tick" /\ hist.branch = "play"
  /\ ~hist.landed /\ ~hist.doubleJump /\ ~hist.gameOver
  /\ score = 2
  /\ player.velocity.y < -358

\* C5: in every tick of the intro while the accumulated delay is below 0.2 s
\* the player's position and velocity are (0,0) before and after the tick; in
\* every later tick of the intro position.y decreases, and in the first of
\* them (velocity still 0) velocity.y becomes negative.
C5_IntroDelayThenFall ==
  [][ (IntroFalling /\ hist'.kind = "tick") =>
        IF introAnimation.delayProgress < 200
        THEN /\ player.position = [x |-> 0, y |-> 0]
             /\ player.velocity = [x |-> 0, y |-> 0]
             /\ player'.position = [x |-> 0, y |-> 0]
             /\ player'.velocity = [x |-> 0, y |-> 0]
             /\ introAnimation'.delayProgress = introAnimation.delayProgress + 16
        ELSE /\ player'.position.y < player.position.y
             /\ player.velocity.y = 0 => player'.velocity.y < 0 ]_vars

\* C5 witness: the first tick after the delay has just run: the delay counter
\* has passed 0.2 s, one step of intro progress is done and the player has
\* begun to fall
C5_Witness ==
  /\ IntroFalling /\ hist.kind = "tick" /\ hist.branch = "intro"
  /\ introAnimation.delayProgress >= 200
  /\ introAnimation.progress = 2
  /\ player.position.y < 0 /\ player.velocity.y < 0


\* the three magnitudes exposed to the glitch pass, all zero
NoGlitchShown ==
  [glitchIntensity |-> 0, digitalNoiseIntensity |-> 0, rgbShiftIntensity |-> 0]

\* the peak magnitudes lie in [0.8, 1.4], [0.3, 0.55] and [0.8, 1.4]
PeaksInRange(gl) ==
  /\ 800000 <= gl.intensity /\ gl.intensity <= 1400000
  /\ 300000 <= gl.digitalNoise /\ gl.digitalNoise <= 550000
  /\ 800000 <= gl.rgbShift /\ gl.rgbShift <= 1400000

\* C6: a tick that resolves a landing leaves the glitch active with peak
\* magnitudes in their ranges and with the elapsed time counted from 0 (0 after
\* an intro landing, one step of 0.016 s after a Playing landing, whose tick
\* also advances the effect); a Playing tick without a landing advances an
\* active glitch by 0.016 s, keeps its peaks, and makes it idle with the three
\* exposed magnitudes 0 exactly when the elapsed time reaches 0.35 s; an idle
\* glitch stays idle with the magnitudes 0 until a landing; whenever the
\* glitch is idle the magnitudes are 0; no other step touches the glitch.
C6_GlitchEnvelope ==
  [][ /\ hist'.landed =>
           /\ glitch'.active
           /\ PeaksInRange(glitch')
           /\ glitch'.duration = IF hist'.branch = "intro" THEN 0 ELSE 16
      /\ (hist'.branch = "play" /\ ~hist'.landed /\ glitch.active) =>
           /\ glitch'.duration = glitch.duration + 16
           /\ glitch'.intensity = glitch.intensity
           /\ glitch'.digitalNoise = glitch.digitalNoise
           /\ glitch'.rgbShift = glitch.rgbShift
           /\ glitch'.active <=> glitch.duration + 16 < 350
      /\ (~glitch.active /\ ~hist'.landed) => ~glitch'.active
      /\ ~glitch'.active => glitchPass' = NoGlitchShown
      /\ hist'.branch \notin {"intro", "play"} =>
           glitch' = glitch /\ glitchPass' = glitchPass ]_vars

\* C6 witness: the glitch triggered by a landing has just run out in a Playing
\* tick: 22 steps of 0.016 s have passed, it is idle and nothing is shown
C6_Witness ==
  /\ hist.kind = "tick" /\ hist.branch = "play" /\ ~hist.landed
  /\ ~glitch.active
  /\ glitch.duration = 352
  /\ PeaksInRange(glitch)
  /\ glitchPass = NoGlitchShown

\* the distance of the world offset from its target -player.y
OffsetGap(w, pl) == w.offset + pl.position.y

\* C7: with the player held still, one world-offset step never increases the
\* distance between the offset and -player.y, never carries the offset to the
\* other side of -player.y, and leaves an offset that is on target where it is.
C7_OffsetNoOvershoot ==
  [][ hist'.kind = "offset" =>
        /\ Abs(OffsetGap(world', player')) <= Abs(OffsetGap(world, player))
        /\ OffsetGap(world, player) >= 0 => OffsetGap(world', player') >= 0
        /\ OffsetGap(world, player) <= 0 => OffsetGap(world', player') <= 0
        /\ Abs(OffsetGap(world, player)) >= 20 =>
             Abs(OffsetGap(world', player')) < Abs(OffsetGap(world, player)) ]_vars

\* C7 witness: a step has just moved an offset that was far from its target
\* closer to it without reaching it
C7_Witness ==
  /\ hist.kind = "offset"
  /\ world.offset = 11 * Unit + 24000
  /\ player.position.y = 0

\* C8: for every draw, at score 0 the cube count is 3 or 4 and is 4 for every
\* draw below 0.8; at score 100 it is 1 or 2; at every score it is in 1..4.
C8_CubeCountBands ==
  hist.kind = "cubeCount" =>
    /\ hist.cubeCount \in 1..4
    /\ score = 0 =>
         /\ hist.cubeCount \in {3, 4}
         /\ hist.random < 800 => hist.cubeCount = 4
    /\ score = 100 => hist.cubeCount \in {1, 2}

\* C8 witness: at score 100 a draw has given a platform of a single cube
C8_Witness ==
  /\ hist.kind = "cubeCount"
  /\ score = 100
  /\ hist.cubeCount = 1

\* C9: gameStarted and introAnimation.active are never both true, and a step
\* changes the game state only from NotStarted to IntroFalling (by a key,
\* click or touch event), from IntroFalling to Playing (by a tick that
\* resolved a landing or completed the intro duration) or from Playing to
\* NotStarted (by the game-over tick).
C9_GameStateCycle ==
  [][ /\ ~(gameStarted /\ introAnimation.active)
      /\ ~(gameStarted' /\ introAnimation'.active)
      /\ (NotStarted /\ ~NotStarted') =>
           IntroFalling' /\ hist'.kind \in {"keydown", "click", "touchstart"}
      /\ (IntroFalling /\ ~IntroFalling') =>
           /\ Playing'
           /\ hist'.kind = "tick"
           /\ hist'.landed \/ introAnimation'.progress >= 75
      /\ (Playing /\ ~Playing') =>
           NotStarted' /\ hist'.kind = "tick" /\ hist'.gameOver ]_vars

\* C9 witness: the intro has just ended by a landing, so the game went from
\* IntroFalling to Playing in the run that a start trigger began
C9_Witness ==
  /\ Playing
  /\ hist.kind = "tick" /\ hist.branch = "intro" /\ hist.landed
  /\ runs >= 1

\* the values the simulation state has right after program start-up:
\* 15 platforms with indices 0..14, the first at (0,-2), no segment hit
StartUpValues ==
  /\ player.position = [x |-> 0, y |-> 0]
  /\ player.velocity = [x |-> 0, y |-> 0]
  /\ ~player.spinning /\ player.spinProgress = 0
  /\ ~player.doubleJumpAvailable /\ ~player.hasDoubleJumped
  /\ score = 0
  /\ world = [offset |-> 0, targetOffset |-> 0]
  /\ introAnimation.progress = 0 /\ introAnimation.delayProgress = 0
  /\ camera = [z |-> 3 * Unit, animating |-> FALSE, animationProgress |-> 0]
  /\ nextPlatformY = 51 * Unit
  /\ globalPlatformCounter = 15
  /\ Len(platforms) = 15
  /\ \A i \in 1..15 :
       /\ platforms[i].platformIndex = i - 1
       /\ \A j \in 1..Len(platforms[i].cubes) :
            ~platforms[i].cubes[j].isHit /\ ~platforms[i].cubes[j].falling
  /\ platforms[1].position = [x |-> 0, y |-> -2 * Unit]

\* the fields C10 lists: in the initial state and at the end of every
\* game-over tick the player, score, world offset, intro counters, camera,
\* nextPlatformY, platform counter and platform set have their start-up values
ListedFieldsReset ==
  (hist.kind = "init" \/ hist.gameOver) => StartUpValues

\* C10 as stated: in the initial state and at the end of every game-over tick
\* the listed fields have their start-up values and the next run starts from
\* the same simulation state as the first, so the left/right hold flags that
\* the Playing tick reads are clear as they are at start-up.
C10_AsStated ==
  (hist.kind = "init" \/ hist.gameOver) =>
    /\ StartUpValues
    /\ gkeys = [left |-> FALSE, right |-> FALSE]

\* C11 as stated: after every tick and every input event the start prompt is
\* visible exactly when the game is in the NotStarted state (hidden while the
\* intro runs and while playing).  The handlers that start the intro do not
\* touch the prompt, and the intro ticks return before the show/hide
\* statement at the end of updateGame.
C11_AsStated ==
  startPrompt <=> NotStarted

\* the landing of a step, as the simulation state shows it: the segment is
\* marked hit, the score is one higher, the in-memory high score is the larger
\* of its old value and the new score, and the player bounces with the jump
\* velocity and a fresh double-jump charge
LandingCompleted ==
  /\ score' = score + 1
  /\ highScore' = Max(highScore, score + 1)
  /\ \E k \in 1..Len(platforms') :
       /\ platforms'[k].uid = hist'.landUid
       /\ platforms'[k].cubes[hist'.landCube].isHit
       /\ platforms'[k].cubes[hist'.landCube].falling
  /\ player'.velocity.y = jumpVelocity
  /\ player'.doubleJumpAvailable /\ ~player'.hasDoubleJumped
  /\ gameStarted' /\ ~introAnimation'.active

\* C12: a storage failure never escapes.  When reading the stored high score
\* fails at start-up the high score starts at 0.  A landing on a fresh segment
\* that does not end the run completes in the same way whether or not writing
\* the high score fails: the simulation state after it is the one a working
\* storage gives, the in-memory high score is raised, and only the stored item
\* differs (it is left as it was when the write fails).  Storage failures
\* never change the failure flags, so later ticks meet the same storage.
C12_StorageFailureContained ==
  [][ /\ (hist.kind = "init" /\ storage.readFails) => highScore = 0
      /\ (hist'.kind = "tick" /\ hist'.newHit /\ ~hist'.gameOver) =>
           /\ LandingCompleted
           /\ storage' = IF score + 1 > highScore /\ ~storage.writeFails
                         THEN [storage EXCEPT !.item = toString(score + 1)]
                         ELSE storage
      /\ highScore' >= highScore
    ]_vars

\* a landing has raised the in-memory high score above a stored value that
\* could not be rewritten
C12_Witness ==
  /\ hist.kind = "tick" /\ hist.newHit
  /\ storage.writeFails /\ ~storage.readFails
  /\ highScore = score /\ highScore > StoredValue(storage)
  /\ player.velocity.y = jumpVelocity

C14_LandingsOnFreshSegments ==
  [][ hist'.landed =>
        /\ hist'.newHit
        /\ \E i \in 1..Len(platforms) :
             /\ platforms[i].uid = hist'.landUid
             /\ ~platforms[i].cubes[hist'.landCube].isHit
        /\ ~hist'.gameOver => score' = score + 1
    ]_vars

\* a landing while a segment hit earlier is still among the live platforms
C14_Witness ==
  /\ hist.kind = "tick" /\ hist.landed /\ score >= 2
  /\ \E i \in 1..Len(platforms) : \E j \in 1..Len(platforms[i].cubes) :
       /\ platforms[i].cubes[j].isHit
       /\ <<platforms[i].uid, j>> # <<hist.landUid, hist.landCube>>

IndexBase == everCreated - globalPlatformCounter

C16_AsStated ==
  \A k \in 1..Len(platforms) :
    platforms[k].platformIndex > 0 =>
      Abs(platforms[k].movement.centerX) + platforms[k].size.width \div 2
        <= platforms[k].movement.range \div 2

\* the player's vertical velocity and position that the collision test of the
\* step sees: after the tick's double jump, gravity and integration (the
\* horizontal position is the one the step ends with, the test does not move it)
TestedVy ==
  (IF hist'.doubleJump THEN doubleJumpVelocity ELSE player.velocity.y)
    + getDifficultyGravity(score)

TestedOverlap(i, j) ==
  Overlaps(platforms[i].cubes[j], player'.position.x, player.position.y + TestedVy)

\* the segments newly marked hit by the step
NewlyMarked ==
  { <<i, j>> \in (1..Len(platforms)) \X (1..4) :
      /\ j <= Len(platforms[i].cubes)
      /\ ~platforms[i].cubes[j].isHit
      /\ \E k \in 1..Len(platforms') :
           /\ platforms'[k].uid = platforms[i].uid
           /\ platforms'[k].cubes[j].isHit }

\* C17: a tick resolves at most one landing, so the score rises by at most 1
\* and at most one segment is marked; a landing is resolved exactly when the
\* velocity after the tick's gravity is <= 0 and some segment overlaps the
\* moved player; and the segment landed on is the first overlapping one in
\* the order the platforms were created and, within its platform, in segment
\* order.
C17_OneLandingFirstOverlap ==
  [][ /\ hist'.kind = "tick" =>
           /\ score' <= score + 1
           /\ hist'.gameOver => hist'.finalScore <= score + 1
           /\ Cardinality(NewlyMarked) <= 1
           /\ hist'.landed => hist'.branch \in {"intro", "play"}
      /\ (hist'.kind = "tick" /\ hist'.branch \in {"intro", "play"} /\ ~hist'.gameOver) =>
           /\ hist'.landed <=>
                /\ TestedVy <= 0
                /\ \E i \in 1..Len(platforms) : \E j \in 1..Len(platforms[i].cubes) :
                     TestedOverlap(i, j)
           /\ hist'.landed =>
                \E i \in 1..Len(platforms) :
                  /\ platforms[i].uid = hist'.landUid
                  /\ TestedOverlap(i, hist'.landCube)
                  /\ \A j \in 1..(hist'.landCube - 1) : ~TestedOverlap(i, j)
                  /\ \A i2 \in 1..(i - 1) :
                       /\ platforms[i2].uid < platforms[i].uid
                       /\ \A j \in 1..Len(platforms[i2].cubes) : ~TestedOverlap(i2, j)
    ]_vars

\* a landing on the second segment of a platform while the player also
\* overlapped the third one
C17_Witness ==
  /\ hist.kind = "tick" /\ hist.landed /\ hist.landCube = 2
  /\ \E k \in 1..Len(platforms) :
       /\ platforms[k].uid = hist.landUid
       /\ Len(platforms[k].cubes) >= 3
       /\ player.position.x + playerRadius > platforms[k].cubes[3].position.x - cubeHalf
       /\ player.position.x - playerRadius < platforms[k].cubes[3].position.x + cubeHalf

\* the horizontal position after integration with the velocity vx and the wrap
\* across the viewport edges of half width W
WrappedX(x, vx, W) ==
  IF x + vx > W THEN -W ELSE IF x + vx < -W THEN W ELSE x + vx

\* C18: a Playing tick runs input/friction, double jump, gravity,
\* integration, wrap, collision in this order.  The horizontal velocity is set
\* from the hold flags (or decays) before the integration, which uses the new
\* velocity, and the wrap follows the integration; a double jump fires exactly
\* on a fresh jump key with an unused charge, and the tick it fires in ends
\* with velocity.y = doubleJumpVelocity + that tick's gravity, the position
\* moved by that velocity, and no landing; a tick without double jump and
\* landing adds the gravity to the old velocity.
C18_TickOrder ==
  [][ (hist'.kind = "tick" /\ hist'.branch = "play") =>
        /\ hist'.doubleJump <=>
             /\ keyPressed \cap {"ArrowUp", "KeyW", "Space"} # {}
             /\ player.doubleJumpAvailable /\ ~player.hasDoubleJumped
        /\ hist'.doubleJump => ~hist'.landed
        /\ ~hist'.gameOver =>
             /\ player'.velocity.x =
                  IF gkeys.left THEN -moveSpeed
                  ELSE IF gkeys.right THEN moveSpeed
                  ELSE TruncDiv(player.velocity.x * 9, 10)
             /\ player'.position.x =
                  WrappedX(player.position.x, player'.velocity.x,
                           viewportHalfWidth(camera'.z))
             /\ hist'.doubleJump =>
                  /\ player'.velocity.y = doubleJumpVelocity + getDifficultyGravity(score)
                  /\ player'.velocity.y > 0
                  /\ player'.position.y = player.position.y + player'.velocity.y
             /\ (~hist'.doubleJump /\ ~hist'.landed) =>
                  /\ player'.velocity.y = player.velocity.y + getDifficultyGravity(score)
                  /\ player'.position.y = player.position.y + player'.velocity.y
    ]_vars

\* a double jump has fired while the player was falling: the tick ends with
\* the double-jump velocity less one tick of gravity, and without a landing
C18_Witness ==
  /\ hist.kind = "tick" /\ hist.branch = "play" /\ hist.doubleJump /\ ~hist.landed
  /\ ~hist.gameOver
  /\ player.velocity.y = doubleJumpVelocity + getDifficultyGravity(score)
  /\ player.hasDoubleJumped

\* is the platform with this uid among the live platforms after the step
LiveAfter(uid) ==
  \E k \in 1..Len(platforms') : platforms'[k].uid = uid

\* C19: at the end of every Playing tick that does not end the run, a platform
\* that was live before the pruning (one that was live before the tick, or one
\* the tick generated) is still live exactly when its centre y is at least
\* player.position.y - 15: everything further below is removed, nothing at or
\* above the margin is, and the positions of fallen segments play no part.
C19_PruneByCentre ==
  [][ (hist'.kind = "tick" /\ hist'.branch = "play" /\ ~hist'.gameOver) =>
        /\ \A i \in 1..Len(platforms) :
             LiveAfter(platforms[i].uid) <=>
               platforms[i].position.y >= player'.position.y - 15 * Unit
        /\ \A u \in everCreated..(everCreated' - 1) : LiveAfter(u)
        /\ \A k \in 1..Len(platforms') :
             platforms'[k].position.y >= player'.position.y - 15 * Unit
    ]_vars

\* the starting platform has been pruned, and a live platform above the margin
\* has a hit segment that has fallen below it
C19_Witness ==
  /\ hist.kind = "tick" /\ hist.branch = "play" /\ ~hist.gameOver
  /\ platforms[1].uid > 0 /\ platforms[1].platformIndex > 0
  /\ \E k \in 1..Len(platforms) : \E j \in 1..Len(platforms[k].cubes) :
       /\ platforms[k].cubes[j].isHit
       /\ platforms[k].cubes[j].position.y < player.position.y - 15 * Unit
       /\ platforms[k].position.y >= player.position.y - 15 * Unit

\* the platforms that were live before the step and are not after it
PrunedByStep ==
  {i \in 1..Len(platforms) : ~LiveAfter(platforms[i].uid)}

\* did the Playing tick call generatePlatforms (the test uses the player's
\* height after the tick's movement)
GenerateCalled ==
  player'.position.y > nextPlatformY - 20 * Unit

\* C20: there are never more than 15 live platforms, and exactly 15 right
\* after every generatePlatforms call (at start-up, in the game-over reset and
\* in a Playing tick, where the platforms the same tick prunes afterwards
\* still count).  A platform that generatePlatforms spawns is placed at the
\* nextPlatformY of that moment, which then grows by the current difficulty
\* spacing, a value in [3.5, 4.2]; nextPlatformY changes in no other way
\* (the reset puts it back to 2).  Live platforms are stored in strictly
\* increasing y, and nextPlatformY is strictly above all of them.
C20_PlatformWindow ==
  [][ /\ hist.kind = "init" => Len(platforms) = 15
      /\ Len(platforms') <= 15
      /\ \A k \in 1..(Len(platforms') - 1) :
           platforms'[k].position.y < platforms'[k + 1].position.y
      /\ \A k \in 1..Len(platforms') : platforms'[k].position.y < nextPlatformY'
      /\ IF hist'.kind = "tick" /\ hist'.gameOver
         THEN /\ Len(platforms') = 15
              /\ nextPlatformY' = 2 * Unit + 14 * getDifficultyPlatformSpacing(0)
              /\ \A k \in 2..15 :
                   platforms'[k].position.y =
                     2 * Unit + (k - 2) * getDifficultyPlatformSpacing(0)
         ELSE IF hist'.kind = "tick" /\ hist'.branch = "play"
         THEN LET spacing == getDifficultyPlatformSpacing(score')
                  spawned == everCreated' - everCreated
              IN /\ 7 * Unit <= 2 * spacing /\ 5 * spacing <= 21 * Unit
                 /\ nextPlatformY' = nextPlatformY + spawned * spacing
                 /\ GenerateCalled => Len(platforms') + Cardinality(PrunedByStep) = 15
                 /\ ~GenerateCalled => spawned = 0
                 /\ \A n \in 0..(spawned - 1) :
                      \E k \in 1..Len(platforms') :
                        /\ platforms'[k].uid = everCreated + n
                        /\ platforms'[k].position.y = nextPlatformY + n * spacing
         ELSE /\ nextPlatformY' = nextPlatformY
              /\ everCreated' = everCreated
              /\ Len(platforms') = Len(platforms)
    ]_vars

\* a Playing tick has filled the platforms up to 15 again and then pruned one:
\* the newest platform is one spacing below nextPlatformY
C20_Witness ==
  /\ hist.kind = "tick" /\ hist.branch = "play" /\ ~hist.gameOver
  /\ globalPlatformCounter > 15 /\ Len(platforms) = 14
  /\ platforms[14].platformIndex = globalPlatformCounter - 1
  /\ platforms[14].position.y = nextPlatformY - getDifficultyPlatformSpacing(score)
  /\ platforms[1].platformIndex = globalPlatformCounter - 14

\* C21: at the end of every tick (in NotStarted, IntroFalling and Playing)
\* the platform collection is not empty and some live platform has its centre
\* strictly above the player: generation and pruning never let the player
\* climb past the generated platforms.
C21_PlatformAbovePlayer ==
  hist.kind = "tick" =>
    /\ Len(platforms) > 0
    /\ \E k \in 1..Len(platforms) : platforms[k].position.y > player.position.y

\* the player has climbed above every platform of the start-up set but the
\* last two, after a tick has generated further platforms
C21_Witness ==
  /\ hist.kind = "tick" /\ hist.branch = "play" /\ ~hist.gameOver
  /\ globalPlatformCounter > 15
  /\ player.position.y > 2 * Unit + 12 * getDifficultyPlatformSpacing(0)
  /\ platforms[Len(platforms)].position.y > player.position.y

\* C22: at the end of every step each segment of every live platform sits at
\* platform.position.x + (i - (n - 1) / 2) * 1.1 (i counted from 0, n the
\* number of segments), whether the platform rests, moves, has reversed or
\* has been clamped; and a platform keeps the number of segments (1..4) it
\* was created with.
C22_SegmentsFollowPlatform ==
  [][ /\ \A k \in 1..Len(platforms') :
           LET n == Len(platforms'[k].cubes) IN
           /\ n \in 1..4
           /\ \A j \in 1..n :
                platforms'[k].cubes[j].position.x =
                  platforms'[k].position.x + (2 * (j - 1) - (n - 1)) * 33000
      /\ \A i \in 1..Len(platforms) : \A k \in 1..Len(platforms') :
           platforms'[k].uid = platforms[i].uid =>
             Len(platforms'[k].cubes) = Len(platforms[i].cubes)
    ]_vars

\* a platform is moving and has left the x it was spawned at
C22_Witness ==
  /\ hist.kind = "tick" /\ hist.branch = "play"
  /\ \E k \in 1..Len(platforms) :
       /\ platforms[k].movement.enabled
       /\ platforms[k].position.x # platforms[k].movement.centerX
       /\ platforms[k].cubes[1].position.x # platforms[k].movement.centerX
            - (Len(platforms[k].cubes) - 1) * 33000

\* the simulation ticks the intro has run since the last start trigger: each
\* delay tick adds 0.016 s to delayProgress and each fall tick adds
\* 0.016 / 0.6 to progress
IntroTicks(ia) == ia.delayProgress \div 16 + ia.progress \div 2

\* C23: once IntroFalling is entered, and as long as no further start trigger
\* sets the counters back, every tick that runs the simulation (updateGame
\* with the model loaded) either advances the intro by
\* one tick (first the delay, then the fall) or ends it in Playing, and an
\* intro that is still running has run fewer than 13 + 38 ticks: Playing is
\* reached within that many ticks, whether the fall ends on a platform or by
\* the progress reaching 1.
C23_IntroEndsInTime ==
  [][ (hist'.kind = "tick" /\ hist'.branch \in {"delay", "intro"}) =>
        /\ IntroFalling
        /\ IntroTicks(introAnimation) < 13 + 38
        /\ hist'.branch = "delay" <=> introAnimation.delayProgress < 200
        /\ IF ~gameStarted' /\ introAnimation'.active
           THEN /\ IntroTicks(introAnimation') = IntroTicks(introAnimation) + 1
                /\ IntroTicks(introAnimation') < 13 + 38
           ELSE gameStarted' /\ ~introAnimation'.active
    ]_vars

\* an intro has ended in Playing after its 13 delay ticks and at least one
\* fall tick
C23_Witness ==
  /\ hist.kind = "tick" /\ hist.branch = "intro"
  /\ Playing
  /\ introAnimation.delayProgress = 13 * 16
  /\ introAnimation.progress >= 2


-----------------------------------------------------------------------------
(* C24: a landing in the intro against a landing in Playing *)

\* the values Math.random() can take on either side of the 20% threshold, in
\* thousandths
LandingDraws == {100, 600}

\* the player of the intro tick after gravity and the move, before the
\* collision test
IntroMoved ==
  [player EXCEPT !.velocity.y = player.velocity.y + getDifficultyGravity(score),
                 !.position.y = player.position.y + player.velocity.y
                                  + getDifficultyGravity(score)]

\* what checkPlatformCollision makes of the state an intro tick lands from
IntroAsPlaying ==
  checkPlatformCollision(IntroMoved, platforms, score, highScore, storage,
                         glitch, explosions, seed)

\* C24 as stated: a landing resolved in an IntroFalling tick leaves the state a
\* landing resolved in Playing on the same segment would leave: the same
\* segment is found, the hit flag, the fall, the score and the high score, the
\* explosion and the glitch are those of checkPlatformCollision, and for every
\* value of the random draw the player (the snap, the bounce, the double-jump
\* charge and the spin started when the draw is below 20%) is the player of
\* the Playing landing with that draw.
C24_AsStated ==
  [][ (hist'.kind = "tick" /\ hist'.branch = "intro" /\ hist'.landed) =>
        /\ IntroAsPlaying.land.landed
        /\ IntroAsPlaying.land.landUid = hist'.landUid
        /\ IntroAsPlaying.land.landCube = hist'.landCube
        /\ platforms' = IntroAsPlaying.platforms
        /\ score' = IntroAsPlaying.score
        /\ highScore' = IntroAsPlaying.highScore
        /\ storage' = IntroAsPlaying.storage
        /\ explosions' = IntroAsPlaying.explosions
        /\ glitch' = IntroAsPlaying.glitch
        /\ \A draw \in LandingDraws :
             LET i == CHOOSE k \in 1..Len(platforms) : platforms[k].uid = hist'.landUid
                 cube == platforms[i].cubes[hist'.landCube]
                 asPlaying == LandOnCube(IntroMoved, cube, draw)
             IN /\ player'.position = asPlaying.position
                /\ player'.velocity = asPlaying.velocity
                /\ player'.doubleJumpAvailable = asPlaying.doubleJumpAvailable
                /\ player'.hasDoubleJumped = asPlaying.hasDoubleJumped
                /\ player'.spinning = asPlaying.spinning
                /\ player'.spinProgress = asPlaying.spinProgress
    ]_vars


-----------------------------------------------------------------------------
(* C25: moving platforms stay inside the viewport *)

\* a step that has run the platform update loop and kept its platforms
PlatformsUpdated ==
  \/ hist'.kind = "platforms"
  \/ hist'.kind = "tick" /\ hist'.branch = "play" /\ ~hist'.gameOver

\* the bounds of the loop for the platform q, from the camera of that step
MaxXAfter(q) == viewportHalfWidth(camera'.z) - q.size.width \div 2
MinXAfter(q) == (-viewportHalfWidth(camera'.z)) + q.size.width \div 2

\* "Update platform position based on movement": x of the platform p after
\* the step of the loop, before any bounds check
SteppedX(p) ==
  p.position.x + p.movement.direction * getDifficultyMovementSpeed(score')

-----------------------------------------------------------------------------
(* C26: which platforms move *)

\* (platformIndex * 2654435761) % 1000 < movementChance(score) * 1000, at a
\* score of 5 or more
HashBelowChance(idx, sc) ==
  sc >= 5 /\ (idx * hashMultiplier) % 1000 < getDifficultyMovementChance(sc)

\* the platform q was there when the tick began
ExistedBefore(q) == \E i \in 1..Len(platforms) : platforms[i].uid = q.uid

\* C26 as stated: after every Playing tick movement.enabled of every platform
\* is true exactly when the score is at least 5 and the hash of its index is
\* below the movement chance of the score; a platform that moves keeps moving
\* for the rest of the run.
C26_AsStated ==
  [][ (hist'.kind = "tick" /\ hist'.branch = "play") =>
        /\ \A j \in 1..Len(platforms') :
             platforms'[j].movement.enabled
               <=> HashBelowChance(platforms'[j].platformIndex, score')
        /\ ~hist'.gameOver =>
             \A i \in 1..Len(platforms), j \in 1..Len(platforms') :
               (platforms[i].uid = platforms'[j].uid /\ platforms[i].movement.enabled)
                 => platforms'[j].movement.enabled
    ]_vars

\* C26, amended: after every Playing tick movement.enabled of every platform
\* that existed when the tick began is true exactly when the score is at least
\* 5 and the hash of its index is below the movement chance of the score, and
\* a platform created in the tick is not enabled until the next tick; no
\* platform moves below score 5 and a platform that moves keeps moving for the
\* rest of the run.
C26_MovementByHash ==
  [][ (hist'.kind = "tick" /\ hist'.branch = "play") =>
        /\ \A j \in 1..Len(platforms') :
             platforms'[j].movement.enabled
               <=> /\ ExistedBefore(platforms'[j])
                   /\ ~hist'.gameOver
                   /\ HashBelowChance(platforms'[j].platformIndex, score')
        /\ score' < 5 => \A j \in 1..Len(platforms') : ~platforms'[j].movement.enabled
        /\ ~hist'.gameOver =>
             \A i \in 1..Len(platforms), j \in 1..Len(platforms') :
               (platforms[i].uid = platforms'[j].uid /\ platforms[i].movement.enabled)
                 => platforms'[j].movement.enabled
    ]_vars

\* after a Playing tick one platform moves and another, whose hash is not
\* below the chance, does not
C26_Witness ==
  /\ hist.kind = "tick" /\ hist.branch = "play" /\ ~hist.gameOver
  /\ score >= 5
  /\ \E i, j \in 1..Len(platforms) :
       /\ platforms[i].movement.enabled
       /\ HashBelowChance(platforms[i].platformIndex, score)
       /\ ~platforms[j].movement.enabled
       /\ ~HashBelowChance(platforms[j].platformIndex, score)


-----------------------------------------------------------------------------
(* C27: a start trigger outside NotStarted *)

\* the step is a start trigger: a key down with Space down afterwards, a touch
\* start or a click on the start prompt
StartTrigger ==
  \/ hist'.kind = "keydown" /\ "Space" \in keys'
  \/ hist'.kind = "touchstart"
  \/ hist'.kind = "click"

\* C27 as stated: a start trigger received while the game is not NotStarted
\* (IntroFalling or Playing) leaves the intro's delay and progress counters,
\* the player's position and velocity and the progress of the camera animation
\* as they are.
C27_AsStated ==
  [][ (StartTrigger /\ ~NotStarted) =>
        /\ introAnimation'.delayProgress = introAnimation.delayProgress
        /\ introAnimation'.progress = introAnimation.progress
        /\ player'.position = player.position
        /\ player'.velocity = player.velocity
        /\ camera'.animationProgress = camera.animationProgress
    ]_vars


-----------------------------------------------------------------------------
(* C28: the hold flags against the keys that are down *)

\* C28 as stated: when a Playing tick runs with no left (right) key down,
\* the hold flag keys.left (keys.right) the tick reads is false, whatever the
\* state the key was pressed or released in and across a game-over reset.
C28_AsStated ==
  [][ (hist'.kind = "tick" /\ hist'.branch = "play") =>
        /\ gkeys.left => keys \cap {"ArrowLeft", "KeyA"} # {}
        /\ gkeys.right => keys \cap {"ArrowRight", "KeyD"} # {}
    ]_vars


-----------------------------------------------------------------------------
(* C29: the jump input is edge-triggered *)

\* C29 as stated: a key press can cause a double jump only in the first tick
\* that runs after it, so a tick performs a double jump only when an input
\* event has arrived since the tick before it; in particular the Space press
\* that starts a run, which is followed by the ticks of the intro, causes no
\* double jump.
C29_AsStated ==
  [][ (hist'.kind = "tick" /\ hist'.doubleJump) => hist.kind # "tick" ]_vars


-----------------------------------------------------------------------------
(* C30: no effect is left running on the start screen *)

\* no explosion, no spin, the glitch idle and its uniforms at 0
NoEffectInProgress ==
  /\ explosions = << >>
  /\ ~player.spinning
  /\ player.spinProgress = 0
  /\ ~glitch.active
  /\ glitchPass = [glitchIntensity |-> 0, digitalNoiseIntensity |-> 0,
                   rgbShiftIntensity |-> 0]

\* C30: whenever the game is NotStarted no effect is in progress, and a step
\* that is not a Playing tick advances none of them: it leaves the glitch's
\* duration and uniforms, the spin progress and the age of every explosion as
\* they are.  The glitch is not reset at game over, but it has always run out
\* by then.
C30_NoEffectOnStartScreen ==
  /\ [](NotStarted => NoEffectInProgress)
  /\ [][ ~(hist'.kind = "tick" /\ hist'.branch = "play") =>
           /\ glitchPass' = glitchPass
           /\ glitch'.duration = glitch.duration \/ glitch'.duration = 0
           /\ player'.spinProgress = player.spinProgress
           /\ player'.spinning = player.spinning
           /\ \A i \in 1..Len(explosions) :
                i <= Len(explosions') /\ explosions'[i] = explosions[i]
       ]_vars

\* a run has ended: its last landing's glitch ran its full duration before
\* the game-over tick, which leaves the game NotStarted with nothing running
C30_Witness ==
  /\ hist.kind = "tick" /\ hist.gameOver
  /\ NotStarted
  /\ glitch.duration >= glitchMaxDuration
  /\ glitch.intensity > 0
  /\ NoEffectInProgress

====
